---- MODULE Spec2Model ----
(***************************************************************************)
(* Model of volume-adjuster/volume_adjuster.py: the VolumeController       *)
(* object (volume_interface, current_volume), the three Flask handlers     *)
(* that use it, the module's start-up code, and the audio endpoint the     *)
(* controller talks to.                                                    *)
(*                                                                         *)
(* Volumes.  A Python float level is modelled as an integer on a grid of   *)
(* four steps from 0.0 to 1.0: Zero is 0.0, One is 1.0, DefaultVolume is   *)
(* 0.5.  Levels below Zero and above One, and NaN, are inputs too.  The    *)
(* endpoint (IAudioEndpointVolume) takes and returns a C float, so a level *)
(* that goes through it is narrowed to single precision; in the model the  *)
(* even levels stand for the doubles a C float holds exactly (0.0, 0.5,    *)
(* 1.0) and the odd ones for those it does not (0.3, 0.7).                 *)
(*                                                                         *)
(* Threads.  app.run() serves each request on a thread of its own and the  *)
(* controller takes no lock, so the handlers' steps interleave at every    *)
(* access to the shared controller and at every endpoint call (a COM call  *)
(* releases the interpreter lock).                                         *)
(***************************************************************************)
EXTENDS Integers, FiniteSets

\* ------------------------------------------------------------------ levels

\* 0.0 and 1.0 of lines 64 and 101, and the 0.5 of line 32, in grid steps.
Zero == 0
One == 4
DefaultVolume == 2

\* How far below 0.0 and above 1.0 the levels of the requests go.
MaxOver == 1

\* float('nan'): a level that compares false with everything.
NaN == One * 100

RealLevels == (Zero - MaxOver)..(One + MaxOver)
Levels == RealLevels \cup {NaN}

\* Python's a < b on floats.
Lt(a, b) == a # NaN /\ b # NaN /\ a < b

\* Python's a <= b on floats.
Le(a, b) == a # NaN /\ b # NaN /\ a <= b

\* Python's min(a, b): a, unless b < a.
PyMin(a, b) == IF Lt(b, a) THEN b ELSE a

\* Python's max(a, b): a, unless b > a.
PyMax(a, b) == IF Lt(a, b) THEN b ELSE a

\* A clamp that forgets the upper end of the range.
ClampNoUpper(level) == PyMax(Zero, level)

\* level = max(0.0, min(1.0, level))
Clamp(level) == PyMax(Zero, PyMin(One, level))

\* A range test that forgets the lower end of the range.
InRangeNoLower(level) == Le(level, One)

\* 0.0 <= level <= 1.0
InRange(level) == Le(Zero, level) /\ Le(level, One)

\* The narrowing of a Python float in [0.0, 1.0] to the C float the endpoint
\* holds: round to nearest, ties to the even mantissa.
ToFloat32(x) ==
    IF x % 2 = 0 THEN x
    ELSE IF (x + 1) % 4 = 0 THEN x + 1 ELSE x - 1

\* The values GetMasterScalarVolume can return.
DeviceLevels == {ToFloat32(x) : x \in Zero..One}

\* ------------------------------------------------------------------ state

Threads == {"t1", "t2"}

None == "None"
Iface == "IAudioEndpointVolume"

VARIABLES
    phase,              \* "import", "loaded", "serving", "exited"
    PYCAW_AVAILABLE,    \* line 17 / line 20
    volume_interface,   \* VolumeController.volume_interface
    current_volume,     \* VolumeController.current_volume
    initialized,        \* what _initialize_audio returned
    devVolume,          \* the endpoint's master scalar volume
    pc,                 \* per thread: where its request is
    req,                \* per thread: the request it serves
    call,               \* per thread: its call of the controller
    resp,               \* per thread: the response it built
    lastWriter,         \* the thread whose SetMasterScalarVolume was applied last
    seqBefore,          \* SpecSeq: the cache when the request being served began
    seqPrev             \* SpecSeq: the controller call of the request before

vars == <<phase, PYCAW_AVAILABLE, volume_interface, current_volume, initialized,
          devVolume, pc, req, call, resp, lastWriter, seqBefore, seqPrev>>

ctl == <<volume_interface, current_volume, initialized>>
boot == <<phase, PYCAW_AVAILABLE>>
seq == <<seqBefore, seqPrev>>

NoReq == [kind |-> "none", shape |-> "none", value |-> Zero]
NoCall == [op |-> "none", local |-> Zero, failed |-> FALSE, ok |-> FALSE,
           val |-> Zero]
NoResp == [status |-> 0, error |-> "", level |-> Zero, audio |-> FALSE]
NoPrev == [op |-> "none", local |-> Zero, failed |-> FALSE, ok |-> FALSE,
           before |-> Zero]
NoThread == "none"

\* The JSON bodies of POST /volume.
Bodies ==
    {[kind |-> "post", shape |-> "number", value |-> v] : v \in Levels}
    \cup {[kind |-> "post", shape |-> "bool", value |-> v] : v \in {Zero, One}}
    \cup {[kind |-> "post", shape |-> s, value |-> Zero] :
            s \in {"malformed", "empty", "no_level", "bad_string", "null",
                   "list", "object"}}

\* The module is being imported: lines 13-20 have run, and lines 31-32 of
\* VolumeController.__init__.
Init ==
    /\ phase = "import"
    /\ PYCAW_AVAILABLE \in BOOLEAN
    /\ volume_interface = None
    /\ current_volume = DefaultVolume
    /\ initialized = FALSE
    /\ devVolume \in DeviceLevels
    /\ pc = [t \in Threads |-> "idle"]
    /\ req = [t \in Threads |-> NoReq]
    /\ call = [t \in Threads |-> NoCall]
    /\ resp = [t \in Threads |-> NoResp]
    /\ lastWriter = NoThread
    /\ seqBefore = Zero
    /\ seqPrev = NoPrev

\* ------------------------------------------------------------------ start-up

\* `not self.volume_interface` of lines 58 and 79, `is not None` of line 138.
HasInterface(h) == h # None

\* VolumeController._initialize_audio, called by __init__ when line 90 builds
\* the controller.  openOk: GetSpeakers, Activate and cast succeed; seedOk:
\* the GetMasterScalarVolume of line 48 succeeds.  The handle is stored at
\* line 45, before the read of line 48.
InitializeAudio(openOk, seedOk) ==
    /\ phase = "import"
    /\ phase' = "loaded"
    /\ volume_interface' =
          IF PYCAW_AVAILABLE /\ openOk THEN Iface ELSE volume_interface
    /\ current_volume' =
          IF PYCAW_AVAILABLE /\ openOk /\ seedOk THEN devVolume
          ELSE current_volume
    /\ initialized' = (PYCAW_AVAILABLE /\ openOk /\ seedOk)
    /\ UNCHANGED <<PYCAW_AVAILABLE, devVolume, pc, req, call, resp, lastWriter>>

\* The __main__ block: exit(1) without pycaw; else, with a handle, one
\* get_volume() for the banner (readOk: its endpoint read succeeds); then
\* app.run().
Main(readOk) ==
    /\ phase = "loaded"
    /\ IF ~PYCAW_AVAILABLE
       THEN /\ phase' = "exited"
            /\ UNCHANGED current_volume
       ELSE /\ phase' = "serving"
            /\ current_volume' =
                  IF HasInterface(volume_interface) /\ readOk THEN devVolume
                  ELSE current_volume
    /\ UNCHANGED <<PYCAW_AVAILABLE, volume_interface, initialized, devVolume,
                   pc, req, call, resp, lastWriter>>

\* The volume is changed by something other than this server.
ExternalChange(v) ==
    /\ phase = "serving"
    /\ v # devVolume
    /\ devVolume' = v
    /\ lastWriter' = NoThread
    /\ UNCHANGED <<boot, ctl, pc, req, call, resp>>

\* ------------------------------------------------------------------ handlers

ErrorResp(status, error) ==
    [status |-> status, error |-> error, level |-> Zero, audio |-> FALSE]

LevelResp(level) ==
    [status |-> 200, error |-> "", level |-> level, audio |-> FALSE]

\* Lines 96-102 of the POST handler with the except clauses of lines 114-118:
\* status 0 when the body is accepted, with the level to set.  get_json()
\* raises BadRequest on a body that is not JSON, float() raises ValueError on
\* a string that is no number and TypeError on null, a list or an object, and
\* float(True) is 1.0.
Validate(body) ==
    CASE body.shape = "malformed" ->
            [status |-> 500, error |-> "BadRequest", level |-> Zero]
      [] body.shape \in {"empty", "no_level"} ->
            [status |-> 400, error |-> "Missing level parameter", level |-> Zero]
      [] body.shape = "bad_string" ->
            [status |-> 400, error |-> "Invalid level value", level |-> Zero]
      [] body.shape \in {"null", "list", "object"} ->
            [status |-> 500, error |-> "TypeError", level |-> Zero]
      [] OTHER ->
            IF InRange(body.value)
            THEN [status |-> 0, error |-> "", level |-> body.value]
            ELSE [status |-> 400,
                  error |-> "Level must be between 0.0 and 1.0",
                  level |-> Zero]

\* The response of the POST handler to what set_volume returned (105-112);
\* a direct call of the controller has no response.
SetResp(r, success) ==
    IF r.kind # "post" THEN NoResp
    ELSE IF success THEN LevelResp(r.value)
    ELSE ErrorResp(500, "Failed to set volume")

\* A set_volume that stores the clamped level before it looks at the handle.
EnterSetVolumeStoreFirst(t, r, level) ==
    LET c == [NoCall EXCEPT !.op = "set"] IN
    /\ req' = [req EXCEPT ![t] = r]
    /\ current_volume' = Clamp(level)
    /\ IF ~HasInterface(volume_interface)
       THEN /\ pc' = [pc EXCEPT ![t] = "done"]
            /\ call' = [call EXCEPT ![t] = c]
            /\ resp' = [resp EXCEPT ![t] = SetResp(r, FALSE)]
       ELSE /\ pc' = [pc EXCEPT ![t] = "set_call"]
            /\ call' = [call EXCEPT ![t] = [c EXCEPT !.local = Clamp(level)]]
            /\ UNCHANGED resp
    /\ UNCHANGED <<boot, volume_interface, initialized, devVolume, lastWriter>>

\* VolumeController.set_volume, lines 58-64: the handle check and the clamp.
EnterSetVolume(t, r, level) ==
    LET c == [NoCall EXCEPT !.op = "set"] IN
    /\ req' = [req EXCEPT ![t] = r]
    /\ IF ~HasInterface(volume_interface)
       THEN /\ pc' = [pc EXCEPT ![t] = "done"]
            /\ call' = [call EXCEPT ![t] = c]
            /\ resp' = [resp EXCEPT ![t] = SetResp(r, FALSE)]
       ELSE /\ pc' = [pc EXCEPT ![t] = "set_call"]
            /\ call' = [call EXCEPT ![t] = [c EXCEPT !.local = Clamp(level)]]
            /\ UNCHANGED resp
    /\ UNCHANGED <<boot, ctl, devVolume, lastWriter>>

\* POST /volume, lines 92-118, up to the endpoint call of set_volume.
PostVolume(t, body) ==
    /\ phase = "serving"
    /\ pc[t] = "idle"
    /\ LET v == Validate(body) IN
       IF v.status # 0
       THEN /\ pc' = [pc EXCEPT ![t] = "done"]
            /\ req' = [req EXCEPT ![t] = body]
            /\ resp' = [resp EXCEPT ![t] = ErrorResp(v.status, v.error)]
            /\ UNCHANGED <<boot, ctl, devVolume, call, lastWriter>>
       ELSE EnterSetVolume(t, body, v.level)

\* volume_controller.set_volume(level) called with any float, not through
\* the POST handler.
CallSetVolume(t, level) ==
    /\ phase = "serving"
    /\ pc[t] = "idle"
    /\ EnterSetVolume(t, [NoReq EXCEPT !.kind = "call", !.value = level], level)

\* A set_volume that stores the level before the endpoint took it.
SetCallStoreFirst(t) ==
    /\ pc[t] = "set_call"
    /\ current_volume' = call[t].local
    /\ \E ok \in BOOLEAN :
        IF ok
        THEN /\ devVolume' = ToFloat32(call[t].local)
             /\ lastWriter' = t
             /\ pc' = [pc EXCEPT ![t] = "set_store"]
             /\ UNCHANGED <<call, resp>>
        ELSE /\ pc' = [pc EXCEPT ![t] = "done"]
             /\ call' = [call EXCEPT ![t].failed = TRUE]
             /\ resp' = [resp EXCEPT ![t] = SetResp(req[t], FALSE)]
             /\ UNCHANGED <<devVolume, lastWriter>>
    /\ UNCHANGED <<boot, volume_interface, initialized, req>>

\* A set_volume that drops the handle when the endpoint call fails.
SetCallDropHandle(t) ==
    /\ pc[t] = "set_call"
    /\ \E ok \in BOOLEAN :
        IF ok
        THEN /\ devVolume' = ToFloat32(call[t].local)
             /\ lastWriter' = t
             /\ pc' = [pc EXCEPT ![t] = "set_store"]
             /\ UNCHANGED <<call, resp, volume_interface>>
        ELSE /\ pc' = [pc EXCEPT ![t] = "done"]
             /\ call' = [call EXCEPT ![t].failed = TRUE]
             /\ resp' = [resp EXCEPT ![t] = SetResp(req[t], FALSE)]
             /\ volume_interface' = None
             /\ UNCHANGED <<devVolume, lastWriter>>
    /\ UNCHANGED <<boot, current_volume, initialized, req>>

\* Line 67, SetMasterScalarVolume(level, None): the endpoint takes the level
\* as a C float, or the call raises and lines 73-75 return False (and lines
\* 111-112 answer 500).
SetCall(t) ==
    /\ pc[t] = "set_call"
    /\ \E ok \in BOOLEAN :
        IF ok
        THEN /\ devVolume' = ToFloat32(call[t].local)
             /\ lastWriter' = t
             /\ pc' = [pc EXCEPT ![t] = "set_store"]
             /\ UNCHANGED <<call, resp>>
        ELSE /\ pc' = [pc EXCEPT ![t] = "done"]
             /\ call' = [call EXCEPT ![t].failed = TRUE]
             /\ resp' = [resp EXCEPT ![t] = SetResp(req[t], FALSE)]
             /\ UNCHANGED <<devVolume, lastWriter>>
    /\ UNCHANGED <<boot, ctl, req>>

\* Lines 68-71: the cache takes the clamped level and set_volume returns
\* True; lines 105-110 answer 200 with the level of the request.
SetStore(t) ==
    /\ pc[t] = "set_store"
    /\ current_volume' = call[t].local
    /\ pc' = [pc EXCEPT ![t] = "done"]
    /\ call' = [call EXCEPT ![t].ok = TRUE]
    /\ resp' = [resp EXCEPT ![t] = SetResp(req[t], TRUE)]
    /\ UNCHANGED <<boot, volume_interface, initialized, devVolume, req,
                   lastWriter>>

\* GET /volume, lines 120-128, into get_volume, lines 79-80: without a handle
\* the cache is the answer.
GetVolume(t) ==
    /\ phase = "serving"
    /\ pc[t] = "idle"
    /\ LET c == [NoCall EXCEPT !.op = "get"] IN
        /\ req' = [req EXCEPT ![t] = [NoReq EXCEPT !.kind = "get"]]
        /\ IF ~HasInterface(volume_interface)
           THEN /\ pc' = [pc EXCEPT ![t] = "done"]
                /\ call' = [call EXCEPT ![t] = [c EXCEPT !.val = current_volume]]
                /\ resp' = [resp EXCEPT ![t] = LevelResp(current_volume)]
           ELSE /\ pc' = [pc EXCEPT ![t] = "get_call"]
                /\ call' = [call EXCEPT ![t] = c]
                /\ UNCHANGED resp
    /\ UNCHANGED <<boot, ctl, devVolume, lastWriter>>

\* Line 83, right-hand side: GetMasterScalarVolume() returns the endpoint's
\* volume, or raises and lines 85-87 take over.
GetCall(t) ==
    /\ pc[t] = "get_call"
    /\ \E ok \in BOOLEAN :
        IF ok
        THEN /\ pc' = [pc EXCEPT ![t] = "get_store"]
             /\ call' = [call EXCEPT ![t].local = devVolume]
        ELSE /\ pc' = [pc EXCEPT ![t] = "get_ret"]
             /\ call' = [call EXCEPT ![t].failed = TRUE]
    /\ UNCHANGED <<boot, ctl, devVolume, req, resp, lastWriter>>

\* A get_volume that drops the value it read.
GetStoreNothing(t) ==
    /\ pc[t] = "get_store"
    /\ pc' = [pc EXCEPT ![t] = "get_ret"]
    /\ call' = [call EXCEPT ![t].local = Zero]
    /\ lastWriter' = NoThread
    /\ UNCHANGED <<boot, ctl, devVolume, req, resp>>

\* Line 83, the assignment: the cache takes the value read.
GetStore(t) ==
    /\ pc[t] = "get_store"
    /\ current_volume' = call[t].local
    /\ pc' = [pc EXCEPT ![t] = "get_ret"]
    /\ call' = [call EXCEPT ![t].local = Zero]
    /\ lastWriter' = NoThread
    /\ UNCHANGED <<boot, volume_interface, initialized, devVolume, req, resp>>

\* Lines 84 and 87, `return self.current_volume`, and the 200 of lines
\* 125-128.
GetReturn(t) ==
    /\ pc[t] = "get_ret"
    /\ pc' = [pc EXCEPT ![t] = "done"]
    /\ call' = [call EXCEPT ![t].val = current_volume]
    /\ resp' = [resp EXCEPT ![t] = LevelResp(current_volume)]
    /\ UNCHANGED <<boot, ctl, devVolume, req, lastWriter>>

\* GET /health, lines 133-139.
Health(t) ==
    /\ phase = "serving"
    /\ pc[t] = "idle"
    /\ pc' = [pc EXCEPT ![t] = "done"]
    /\ req' = [req EXCEPT ![t] = [NoReq EXCEPT !.kind = "health"]]
    /\ resp' = [resp EXCEPT ![t] =
                  [NoResp EXCEPT !.status = 200,
                                 !.audio = HasInterface(volume_interface)]]
    /\ UNCHANGED <<boot, ctl, devVolume, call, lastWriter>>

\* The response is sent and the thread takes the next request.
Finish(t) ==
    /\ pc[t] = "done"
    /\ pc' = [pc EXCEPT ![t] = "idle"]
    /\ req' = [req EXCEPT ![t] = NoReq]
    /\ call' = [call EXCEPT ![t] = NoCall]
    /\ resp' = [resp EXCEPT ![t] = NoResp]
    /\ lastWriter' = IF lastWriter = t THEN NoThread ELSE lastWriter
    /\ UNCHANGED <<boot, ctl, devVolume>>

\* ------------------------------------------------------------------ specifications

Begin(t) ==
    \/ \E body \in Bodies : PostVolume(t, body)
    \/ \E level \in Levels : CallSetVolume(t, level)
    \/ GetVolume(t)
    \/ Health(t)

Step(t) ==
    \/ SetCall(t)
    \/ SetStore(t)
    \/ GetCall(t)
    \/ GetStore(t)
    \/ GetReturn(t)

\* No request is being served.
Quiet == \A t \in Threads : pc[t] = "idle"

\* The threaded server of app.run(): requests overlap.
Next ==
    \/ \E openOk, seedOk \in BOOLEAN : InitializeAudio(openOk, seedOk) /\ UNCHANGED seq
    \/ \E readOk \in BOOLEAN : Main(readOk) /\ UNCHANGED seq
    \/ \E v \in DeviceLevels : ExternalChange(v) /\ UNCHANGED seq
    \/ \E t \in Threads : Begin(t) /\ UNCHANGED seq
    \/ \E t \in Threads : Step(t) /\ UNCHANGED seq
    \/ \E t \in Threads : Finish(t) /\ UNCHANGED seq

Spec == Init /\ [][Next]_vars

\* What seqPrev keeps of the call of thread t.
Summary(t) ==
    [op |-> call[t].op, local |-> call[t].local, failed |-> call[t].failed,
     ok |-> call[t].ok, before |-> seqBefore]

\* The same server when its clients send one request at a time; seqBefore
\* and seqPrev record the cache at the start of the request and the call of
\* the request before it (forgotten when the volume was changed from outside
\* since that call wrote it).
NextSeq ==
    \/ \E openOk, seedOk \in BOOLEAN : InitializeAudio(openOk, seedOk) /\ UNCHANGED seq
    \/ \E readOk \in BOOLEAN : Main(readOk) /\ UNCHANGED seq
    \/ \E v \in DeviceLevels :
          ExternalChange(v) /\ seqPrev' = NoPrev /\ UNCHANGED seqBefore
    \/ \E t \in Threads :
          Quiet /\ Begin(t) /\ seqBefore' = current_volume /\ UNCHANGED seqPrev
    \/ \E t \in Threads : Step(t) /\ UNCHANGED seq
    \/ \E t \in Threads :
          /\ Finish(t)
          /\ seqPrev' = IF call[t].op = "none" THEN seqPrev
                         ELSE IF call[t].ok /\ lastWriter # t THEN NoPrev
                         ELSE Summary(t)
          /\ seqBefore' = Zero

SpecSeq == Init /\ [][NextSeq]_vars

\* ------------------------------------------------------------------ claims

Done(t) == pc[t] = "done"

\* Thread t is between the start and the end of set_volume or get_volume.
InController(t) ==
    pc[t] \in {"set_call", "set_store", "get_call", "get_store", "get_ret"}

\* Thread t has finished a get_volume whose endpoint read succeeded, right
\* after a set_volume that returned True, the volume untouched in between.
GetAfterSet(t) ==
    /\ Done(t)
    /\ call[t].op = "get"
    /\ ~call[t].failed
    /\ seqPrev.op = "set"
    /\ seqPrev.ok

C2_DegradedMode ==
    (phase = "serving" /\ ~HasInterface(volume_interface)) =>
        /\ current_volume = DefaultVolume
        /\ \A t \in Threads :
            /\ pc[t] \in {"idle", "done"}
            /\ call[t].op = "set" =>
                  /\ ~call[t].ok
                  /\ req[t].kind = "post" =>
                        resp[t] = ErrorResp(500, "Failed to set volume")
            /\ call[t].op = "get" =>
                  /\ call[t].val = DefaultVolume
                  /\ resp[t] = LevelResp(DefaultVolume)

C2_Witness ==
    /\ phase = "serving"
    /\ ~HasInterface(volume_interface)
    /\ \E t, u \in Threads :
        /\ Done(t) /\ call[t].op = "set" /\ req[t].value = One
        /\ Done(u) /\ call[u].op = "get"

\* C3: when _initialize_audio fails (returns False), the handle is absent,
\* the cache is still 0.5 when it returns, and GET /health reports
\* audio_initialized false.
C3_InitFailureNoHandle ==
    (phase # "import" /\ ~initialized) =>
        /\ ~HasInterface(volume_interface)
        /\ phase = "loaded" => current_volume = DefaultVolume
        /\ \A t \in Threads :
              (Done(t) /\ req[t].kind = "health") => ~resp[t].audio

\* C4: no two requests are at the same time between the start and the end
\* of set_volume or get_volume.
C4_MutualExclusion ==
    \A t, u \in Threads : (InController(t) /\ InController(u)) => t = u

\* C5: when the endpoint's set call fails, set_volume returns False, the
\* cache is what it was when the request began, POST /volume answers 500
\* 'Failed to set volume' and the handle stays; a GET /volume after it whose
\* endpoint read fails too answers 200 with the cache from before the POST.
C5_FailedWrite ==
    \A t \in Threads :
        /\ (Done(t) /\ call[t].op = "set" /\ call[t].failed) =>
              /\ ~call[t].ok
              /\ current_volume = seqBefore
              /\ HasInterface(volume_interface)
              /\ req[t].kind = "post" =>
                    resp[t] = ErrorResp(500, "Failed to set volume")
        /\ (Done(t) /\ call[t].op = "get" /\ call[t].failed
                /\ seqPrev.op = "set" /\ seqPrev.failed) =>
              /\ resp[t] = LevelResp(seqPrev.before)
              /\ current_volume = seqPrev.before
              /\ HasInterface(volume_interface)

C5_Witness ==
    \E t \in Threads :
        /\ Done(t) /\ call[t].op = "get" /\ call[t].failed
        /\ seqPrev.op = "set" /\ seqPrev.failed
        /\ seqPrev.local # seqPrev.before
        /\ resp[t].status = 200

\* The level of a request is a number outside [0.0, 1.0].
OutOfRange(r) ==
    /\ r.kind = "post"
    /\ r.shape = "number"
    /\ (r.value = NaN \/ r.value < Zero \/ r.value > One)

C7_ValidationCodes ==
    \A t \in Threads :
        (Done(t) /\ req[t].kind = "post") =>
            /\ req[t].shape \in {"empty", "no_level"} =>
                  resp[t] = ErrorResp(400, "Missing level parameter")
            /\ req[t].shape \in {"bad_string", "null", "list", "object"} =>
                  /\ resp[t] = ErrorResp(400, "Invalid level value")
                  /\ call[t].op = "none"

C9_ModeFixed ==
    [][phase # "import" =>
          /\ volume_interface' = volume_interface
          /\ \A t \in Threads :
                req'[t].kind = "health" =>
                    resp'[t].audio = (volume_interface # None)]_vars

C9_Witness ==
    \E t, u \in Threads :
        /\ Done(t) /\ req[t].kind = "health" /\ resp[t].audio
        /\ Done(u) /\ call[u].op = "set" /\ call[u].failed

\* C10: when the set_volume calls of all threads have returned True and the
\* volume was not changed otherwise, the cache is the level of the call whose
\* endpoint write was applied last, and the endpoint holds that level (as the
\* C float it is narrowed to).
C10_LastWriterWins ==
    ((\A t \in Threads : Done(t) /\ call[t].op = "set" /\ call[t].ok)
        /\ lastWriter # NoThread) =>
        /\ current_volume = call[lastWriter].local
        /\ devVolume = ToFloat32(call[lastWriter].local)

====
